---- MODULE Spec2Model ----
(***************************************************************************)
(* Leave request lifecycle and balance consistency of app.py: the request  *)
(* handlers apply_leave and review_leave run as concurrent workers, each   *)
(* on its own SQLite connection.  A SELECT sees the committed database; an *)
(* INSERT or UPDATE opens a transaction that holds the database write lock *)
(* until commit().                                                         *)
(***************************************************************************)
EXTENDS Integers, Sequences, FiniteSets, TLC

\* ---- bounds ----
NumProcs == 2
MaxCalls == 4
MaxLeaves == 2
InitBalance == 2

Procs == 1..NumProcs
Employees == {1, 2}
HRs == {3, 4}
Users == Employees \cup HRs
NoUser == 0
LeaveIds == 1..MaxLeaves
Null == 0
NullText == <<"N", "U", "L", "L">>

\* ---- form inputs ----
\* a date field is the text YYYY-MM-DD, held as <<y, m, d>>
FormDates == {<<2024, 2, 29>>, <<2024, 3, 1>>, <<2024, 2, 30>>}
FormActions == {"approve", "reject", "cancel"}
FormComments == {<<"o", "k", " ">>}
LeaveTypes == {"Vacation"}
Reasons == {<<>>}

VARIABLES db, tx, lock, clock, proc, calls
vars == <<db, tx, lock, clock, proc, calls>>

\* ---- utilities ----
IsLeap(y) == (y % 4 = 0) /\ ((y % 100 # 0) \/ (y % 400 = 0))

DaysInMonth(y, m) ==
  IF m = 2 THEN (IF IsLeap(y) THEN 29 ELSE 28)
  ELSE IF m \in {4, 6, 9, 11} THEN 30 ELSE 31

RECURSIVE DaysBeforeMonth(_, _)
DaysBeforeMonth(y, m) ==
  IF m <= 1 THEN 0 ELSE DaysBeforeMonth(y, m - 1) + DaysInMonth(y, m - 1)

DaysBeforeYear(y) ==
  (y - 1) * 365 + ((y - 1) \div 4) - ((y - 1) \div 100) + ((y - 1) \div 400)

\* parse_date(text).date(): <<>> stands for the raised exception
parse_date(s) ==
  IF /\ Len(s) = 3
     /\ s[1] \in 1..9999
     /\ s[2] \in 1..12
     /\ s[3] \in 1..DaysInMonth(s[1], s[2])
  THEN <<DaysBeforeYear(s[1]) + DaysBeforeMonth(s[1], s[2]) + s[3]>>
  ELSE <<>>

Max(a, b) == IF a >= b THEN a ELSE b

\* mutant of calc_days: the clamp at 0 is left out
calc_days_NoClamp(start_iso, end_iso) ==
  LET s == parse_date(start_iso)
      e == parse_date(end_iso)
  IN IF s = <<>> \/ e = <<>> THEN <<>>
     ELSE <<(e[1] - s[1]) + 1>>

\* calc_days: <<>> when parse_date raises, else <<max(0, (e - s).days + 1)>>
calc_days(start_iso, end_iso) ==
  LET s == parse_date(start_iso)
      e == parse_date(end_iso)
  IN IF s = <<>> \/ e = <<>> THEN <<>>
     ELSE <<Max(0, (e[1] - s[1]) + 1)>>

RECURSIVE LStrip(_)
LStrip(s) == IF s # <<>> /\ Head(s) = " " THEN LStrip(Tail(s)) ELSE s

RECURSIVE RStrip(_)
RStrip(s) ==
  IF s # <<>> /\ s[Len(s)] = " " THEN RStrip(SubSeq(s, 1, Len(s) - 1)) ELSE s

Strip(s) == LStrip(RStrip(s))

\* ---- database ----
Role(u) == IF u \in HRs THEN "hr" ELSE "employee"

InitUsers == [u \in Users |-> [id |-> u, role |-> Role(u), leave_balance |-> InitBalance]]

\* column defaults of the leaves table
DefaultStatus == "Pending"

\* SELECT * FROM users WHERE id = ?  (one=True): <<>> is None
SelectUser(d, uid) == IF uid \in DOMAIN d.users THEN <<d.users[uid]>> ELSE <<>>

\* SELECT * FROM leaves WHERE id = ?  (one=True)
SelectLeave(d, leave_id) ==
  IF leave_id \in 1..Len(d.leaves) THEN <<d.leaves[leave_id]>> ELSE <<>>

current_user(d, uid) == IF uid = NoUser THEN <<>> ELSE SelectUser(d, uid)

\* INSERT INTO leaves (...) VALUES (...)
InsertLeave(d, employee_id, start, end, days, leave_type, reason, now) ==
  [d EXCEPT !.leaves = Append(@,
     [id |-> Len(d.leaves) + 1, employee_id |-> employee_id,
      start_date |-> start, end_date |-> end, days |-> days,
      leave_type |-> leave_type, reason |-> reason, applied_at |-> now,
      status |-> DefaultStatus, reviewed_by |-> Null, reviewed_at |-> Null,
      review_comment |-> NullText])]

\* UPDATE users SET leave_balance = leave_balance - ? WHERE id = ?
UpdateBalance(d, days, uid) ==
  IF uid \in DOMAIN d.users
  THEN [d EXCEPT !.users[uid].leave_balance = @ - days]
  ELSE d

\* mutant of UpdateLeave: the reviewer column is left out of the UPDATE
UpdateLeave_NoReviewer(d, status, reviewer, now, comment, leave_id) ==
  IF leave_id \in 1..Len(d.leaves)
  THEN [d EXCEPT !.leaves[leave_id] =
          [@ EXCEPT !.status = status, !.reviewed_at = now,
                    !.review_comment = comment]]
  ELSE d

\* UPDATE leaves SET status=?, reviewed_by=?, reviewed_at=?, review_comment=? WHERE id=?
UpdateLeave(d, status, reviewer, now, comment, leave_id) ==
  IF leave_id \in 1..Len(d.leaves)
  THEN [d EXCEPT !.leaves[leave_id] =
          [@ EXCEPT !.status = status, !.reviewed_by = reviewer,
                    !.reviewed_at = now, !.review_comment = comment]]
  ELSE d

\* ---- workers ----
Idle == [pc |-> "idle", op |-> "none", user |-> NoUser, leave_id |-> 0,
         action |-> "none", comment |-> <<>>, start |-> <<>>, end |-> <<>>,
         leave_type |-> "none", reason |-> <<>>,
         days |-> 0, l |-> <<>>, emp |-> <<>>, outcome |-> "none"]

\* the handler returns: its locals are gone, the worker is free again and
\* the response of its last call stays visible
Done(r, outcome) == [Idle EXCEPT !.op = r.op, !.outcome = outcome]

Init ==
  /\ db = [users |-> InitUsers, leaves |-> <<>>]
  /\ tx = db
  /\ lock = 0
  /\ clock = 1
  /\ proc = [p \in Procs |-> Idle]
  /\ calls = 0

InFlightApply == Cardinality({p \in Procs : proc[p].op = "apply" /\ proc[p].pc \in {"ap_check", "ap_insert", "ap_commit"}})

\* apply_leave, POST: role check and calc_days
ApplyCall(p, uid, start, end, leave_type, reason) ==
  /\ proc[p].pc = "idle"
  /\ calls < MaxCalls
  /\ calls' = calls + 1
  /\ Len(db.leaves) + InFlightApply < MaxLeaves
  /\ LET user == current_user(db, uid)
         days == calc_days(start, end)
         r == [Idle EXCEPT !.op = "apply", !.user = uid, !.start = start,
                           !.end = end, !.leave_type = leave_type,
                           !.reason = Strip(reason)]
     IN proc' = [proc EXCEPT ![p] =
          IF user = <<>> \/ user[1].role # "employee"
          THEN Done(r, "AccessDenied")
          ELSE IF days = <<>>
          THEN Done(r, "ValidationError")
          ELSE [r EXCEPT !.pc = "ap_check", !.days = days[1]]]
  /\ UNCHANGED <<db, tx, lock, clock>>

\* mutant of ApplyCheck: the balance comparison is left out
ApplyCheck_NoCheck(p) ==
  /\ proc[p].pc = "ap_check"
  /\ proc' = [proc EXCEPT ![p] =
       [@ EXCEPT !.pc = "ap_insert", !.emp = SelectUser(db, proc[p].user)]]
  /\ UNCHANGED <<db, tx, lock, clock, calls>>

\* apply_leave: re-read the balance and compare
ApplyCheck(p) ==
  /\ proc[p].pc = "ap_check"
  /\ LET user_db == SelectUser(db, proc[p].user)
     IN proc' = [proc EXCEPT ![p] =
          IF proc[p].days > user_db[1].leave_balance
          THEN Done([@ EXCEPT !.emp = user_db], "InsufficientBalance")
          ELSE [@ EXCEPT !.pc = "ap_insert", !.emp = user_db]]
  /\ UNCHANGED <<db, tx, lock, clock, calls>>

\* mutant of ApplyInsert: the balance is reserved at submission
ApplyInsert_Reserve(p) ==
  /\ proc[p].pc = "ap_insert"
  /\ lock = 0
  /\ lock' = p
  /\ tx' = UpdateBalance(
             InsertLeave(db, proc[p].user, proc[p].start, proc[p].end,
                         proc[p].days, proc[p].leave_type, proc[p].reason, clock),
             proc[p].days, proc[p].user)
  /\ clock' = clock + 1
  /\ proc' = [proc EXCEPT ![p].pc = "ap_commit"]
  /\ UNCHANGED <<db, calls>>

\* apply_leave: INSERT opens the write transaction
ApplyInsert(p) ==
  /\ proc[p].pc = "ap_insert"
  /\ lock = 0
  /\ lock' = p
  /\ tx' = InsertLeave(db, proc[p].user, proc[p].start, proc[p].end,
                       proc[p].days, proc[p].leave_type, proc[p].reason, clock)
  /\ clock' = clock + 1
  /\ proc' = [proc EXCEPT ![p].pc = "ap_commit"]
  /\ UNCHANGED <<db, calls>>

\* apply_leave: db.commit()
ApplyCommit(p) ==
  /\ proc[p].pc = "ap_commit"
  /\ lock = p
  /\ db' = tx
  /\ tx' = tx
  /\ lock' = 0
  /\ proc' = [proc EXCEPT ![p] = Done(@, "Success")]
  /\ UNCHANGED <<clock, calls>>

\* mutant of ReviewCall: any logged-in user passes
ReviewCall_NoRole(p, uid, leave_id, action, comment) ==
  /\ proc[p].pc = "idle"
  /\ calls < MaxCalls
  /\ calls' = calls + 1
  /\ LET user == current_user(db, uid)
         r == [Idle EXCEPT !.op = "review", !.user = uid, !.leave_id = leave_id,
                           !.action = action, !.comment = Strip(comment)]
     IN proc' = [proc EXCEPT ![p] =
          IF user = <<>>
          THEN Done(r, "AccessDenied")
          ELSE [r EXCEPT !.pc = "rv_read"]]
  /\ UNCHANGED <<db, tx, lock, clock>>

\* review_leave: role check
ReviewCall(p, uid, leave_id, action, comment) ==
  /\ proc[p].pc = "idle"
  /\ calls < MaxCalls
  /\ calls' = calls + 1
  /\ LET user == current_user(db, uid)
         r == [Idle EXCEPT !.op = "review", !.user = uid, !.leave_id = leave_id,
                           !.action = action, !.comment = Strip(comment)]
     IN proc' = [proc EXCEPT ![p] =
          IF user = <<>> \/ user[1].role # "hr"
          THEN Done(r, "AccessDenied")
          ELSE [r EXCEPT !.pc = "rv_read"]]
  /\ UNCHANGED <<db, tx, lock, clock>>

\* mutant of ReviewRead: every action other than approve is taken as reject
ReviewRead_ElseReject(p) ==
  /\ proc[p].pc = "rv_read"
  /\ LET l == SelectLeave(db, proc[p].leave_id)
     IN proc' = [proc EXCEPT ![p] =
          IF l = <<>> THEN Done(@, "NotFound")
          ELSE IF proc[p].action = "approve" THEN [@ EXCEPT !.pc = "rv_emp", !.l = l]
          ELSE [@ EXCEPT !.pc = "rv_reject", !.l = l]]
  /\ UNCHANGED <<db, tx, lock, clock, calls>>

\* mutant of ReviewRead: a missing row is not tested; approve and reject go on
\* to their UPDATE, which matches no row
ReviewRead_NoNotFound(p) ==
  /\ proc[p].pc = "rv_read"
  /\ LET l == SelectLeave(db, proc[p].leave_id)
     IN proc' = [proc EXCEPT ![p] =
          IF proc[p].action = "approve" /\ l # <<>> THEN [@ EXCEPT !.pc = "rv_emp", !.l = l]
          ELSE IF proc[p].action \in {"approve", "reject"}
          THEN [@ EXCEPT !.pc = "rv_reject", !.l = l]
          ELSE Done([@ EXCEPT !.l = l], "ValidationError")]
  /\ UNCHANGED <<db, tx, lock, clock, calls>>

\* review_leave: read the leave row and branch on the action
ReviewRead(p) ==
  /\ proc[p].pc = "rv_read"
  /\ LET l == SelectLeave(db, proc[p].leave_id)
     IN proc' = [proc EXCEPT ![p] =
          IF l = <<>> THEN Done(@, "NotFound")
          ELSE IF proc[p].action = "approve" THEN [@ EXCEPT !.pc = "rv_emp", !.l = l]
          ELSE IF proc[p].action = "reject" THEN [@ EXCEPT !.pc = "rv_reject", !.l = l]
          ELSE Done([@ EXCEPT !.l = l], "ValidationError")]
  /\ UNCHANGED <<db, tx, lock, clock, calls>>

\* mutant of ReviewEmp: the balance comparison is left out
ReviewEmp_NoCheck(p) ==
  /\ proc[p].pc = "rv_emp"
  /\ proc' = [proc EXCEPT ![p] =
       [@ EXCEPT !.pc = "rv_debit",
                 !.emp = SelectUser(db, proc[p].l[1].employee_id)]]
  /\ UNCHANGED <<db, tx, lock, clock, calls>>

\* review_leave, approve: read the employee row and compare
ReviewEmp(p) ==
  /\ proc[p].pc = "rv_emp"
  /\ LET emp == SelectUser(db, proc[p].l[1].employee_id)
     IN proc' = [proc EXCEPT ![p] =
          IF emp[1].leave_balance < proc[p].l[1].days
          THEN Done([@ EXCEPT !.emp = emp], "InsufficientBalance")
          ELSE [@ EXCEPT !.pc = "rv_debit", !.emp = emp]]
  /\ UNCHANGED <<db, tx, lock, clock, calls>>

\* mutant of ReviewDebit: the connection is in autocommit mode, so the debit
\* is committed by the UPDATE itself
ReviewDebit_Autocommit(p) ==
  /\ proc[p].pc = "rv_debit"
  /\ lock = 0
  /\ lock' = p
  /\ db' = UpdateBalance(db, proc[p].l[1].days, proc[p].emp[1].id)
  /\ tx' = db'
  /\ proc' = [proc EXCEPT ![p].pc = "rv_stamp"]
  /\ UNCHANGED <<clock, calls>>

\* review_leave, approve: UPDATE users opens the write transaction
ReviewDebit(p) ==
  /\ proc[p].pc = "rv_debit"
  /\ lock = 0
  /\ lock' = p
  /\ tx' = UpdateBalance(db, proc[p].l[1].days, proc[p].emp[1].id)
  /\ proc' = [proc EXCEPT ![p].pc = "rv_stamp"]
  /\ UNCHANGED <<db, clock, calls>>

\* review_leave, approve: UPDATE leaves inside the open transaction
ReviewStamp(p) ==
  /\ proc[p].pc = "rv_stamp"
  /\ lock = p
  /\ tx' = UpdateLeave(tx, "Approved", proc[p].user, clock, proc[p].comment,
                       proc[p].leave_id)
  /\ clock' = clock + 1
  /\ proc' = [proc EXCEPT ![p].pc = "rv_commit"]
  /\ UNCHANGED <<db, lock, calls>>

\* mutant of ReviewReject: the reject branch debits like the approve branch
ReviewReject_Debit(p) ==
  /\ proc[p].pc = "rv_reject"
  /\ lock = 0
  /\ lock' = p
  /\ tx' = UpdateLeave(UpdateBalance(db, proc[p].l[1].days, proc[p].l[1].employee_id),
                       "Rejected", proc[p].user, clock, proc[p].comment,
                       proc[p].leave_id)
  /\ clock' = clock + 1
  /\ proc' = [proc EXCEPT ![p].pc = "rv_commit"]
  /\ UNCHANGED <<db, calls>>

\* review_leave, reject: UPDATE leaves opens the write transaction
ReviewReject(p) ==
  /\ proc[p].pc = "rv_reject"
  /\ lock = 0
  /\ lock' = p
  /\ tx' = UpdateLeave(db, "Rejected", proc[p].user, clock, proc[p].comment,
                       proc[p].leave_id)
  /\ clock' = clock + 1
  /\ proc' = [proc EXCEPT ![p].pc = "rv_commit"]
  /\ UNCHANGED <<db, calls>>

\* review_leave: db.commit()
ReviewCommit(p) ==
  /\ proc[p].pc = "rv_commit"
  /\ lock = p
  /\ db' = tx
  /\ tx' = tx
  /\ lock' = 0
  /\ proc' = [proc EXCEPT ![p] = Done(@, "Success")]
  /\ UNCHANGED <<clock, calls>>

\* the first write of a handler finds the database locked by another
\* connection until the busy timeout expires: sqlite3.OperationalError
Busy(p) ==
  /\ proc[p].pc \in {"ap_insert", "rv_debit", "rv_reject"}
  /\ lock \notin {0, p}
  /\ proc' = [proc EXCEPT ![p] = Done(@, "Fault")]
  /\ UNCHANGED <<db, tx, lock, clock, calls>>

\* SELECT l.*, ..., u.leave_balance FROM leaves l JOIN users u
\*   ON u.id = l.employee_id WHERE l.id = ?  (one=True)
SelectLeaveJoin(d, leave_id) ==
  IF leave_id \in 1..Len(d.leaves) /\ d.leaves[leave_id].employee_id \in DOMAIN d.users
  THEN <<[leave |-> d.leaves[leave_id],
          leave_balance |-> d.users[d.leaves[leave_id].employee_id].leave_balance]>>
  ELSE <<>>

\* view_leave: current_user(), no role check of its own
ViewCall(p, uid, leave_id) ==
  /\ proc[p].pc = "idle"
  /\ calls < MaxCalls
  /\ calls' = calls + 1
  /\ proc' = [proc EXCEPT ![p] =
       [Idle EXCEPT !.op = "view", !.pc = "vw_read", !.user = uid,
                    !.leave_id = leave_id]]
  /\ UNCHANGED <<db, tx, lock, clock>>

\* mutant of ViewRead: the ownership comparison is left out
ViewRead_NoOwnerCheck(p) ==
  /\ proc[p].pc = "vw_read"
  /\ LET user == current_user(db, proc[p].user)
         l == SelectLeaveJoin(db, proc[p].leave_id)
     IN proc' = [proc EXCEPT ![p] =
          IF l = <<>> THEN Done(@, "NotFound")
          ELSE IF user = <<>> THEN Done(@, "Fault")
          ELSE Done(@, "Success")]
  /\ UNCHANGED <<db, tx, lock, clock, calls>>

\* view_leave: the join query, then the hr-or-owner test; user['role'] on a
\* missing user raises TypeError
ViewRead(p) ==
  /\ proc[p].pc = "vw_read"
  /\ LET user == current_user(db, proc[p].user)
         l == SelectLeaveJoin(db, proc[p].leave_id)
     IN proc' = [proc EXCEPT ![p] =
          IF l = <<>> THEN Done(@, "NotFound")
          ELSE IF user = <<>> THEN Done(@, "Fault")
          ELSE IF user[1].role # "hr" /\ user[1].id # l[1].leave.employee_id
          THEN Done(@, "AccessDenied")
          ELSE Done(@, "Success")]
  /\ UNCHANGED <<db, tx, lock, clock, calls>>

Next ==
  \E p \in Procs :
    \/ \E uid \in Users \cup {NoUser}, start \in FormDates, end \in FormDates,
          lt \in LeaveTypes, reason \in Reasons :
          ApplyCall(p, uid, start, end, lt, reason)
    \/ ApplyCheck(p)
    \/ ApplyInsert(p)
    \/ ApplyCommit(p)
    \/ \E uid \in Users \cup {NoUser}, leave_id \in LeaveIds,
          action \in FormActions, comment \in FormComments :
          ReviewCall(p, uid, leave_id, action, comment)
    \/ ReviewRead(p)
    \/ ReviewEmp(p)
    \/ ReviewDebit(p)
    \/ ReviewStamp(p)
    \/ ReviewReject(p)
    \/ ReviewCommit(p)
    \/ Busy(p)
    \/ \E uid \in Users \cup {NoUser}, leave_id \in LeaveIds : ViewCall(p, uid, leave_id)
    \/ ViewRead(p)

Spec == Init /\ [][Next]_vars

\* ---- calc_days on its own ----
\* date texts given to calc_days: calendar dates around month, leap-day and
\* year ends, and texts that name no calendar date
ValidDayDates ==
  {<<2023, 12, 31>>, <<2024, 1, 1>>, <<2024, 1, 3>>, <<2024, 2, 28>>,
   <<2024, 2, 29>>, <<2024, 3, 1>>, <<2024, 3, 5>>, <<2024, 12, 31>>,
   <<2025, 1, 1>>, <<2025, 2, 28>>, <<2025, 3, 1>>}
InvalidDayDates == {<<2024, 2, 30>>, <<2025, 2, 29>>, <<2024, 13, 1>>}
DayDates == ValidDayDates \cup InvalidDayDates

InitDays ==
  /\ db = [users |-> InitUsers, leaves |-> <<>>]
  /\ tx = db
  /\ lock = 0
  /\ clock = 1
  /\ calls = 0
  /\ \E s \in DayDates, e \in DayDates :
       proc = [p \in Procs |->
                 IF p = 1
                 THEN [Idle EXCEPT !.pc = "calc", !.op = "calc", !.start = s, !.end = e]
                 ELSE Idle]

\* one evaluation of calc_days(start, end); the raised exception is ParseError
CalcDays ==
  /\ proc[1].pc = "calc"
  /\ LET d == calc_days(proc[1].start, proc[1].end)
     IN proc' = [proc EXCEPT ![1] =
          IF d = <<>>
          THEN [@ EXCEPT !.pc = "idle", !.outcome = "ParseError"]
          ELSE [@ EXCEPT !.pc = "idle", !.outcome = "Success", !.days = d[1]]]
  /\ UNCHANGED <<db, tx, lock, clock, calls>>

NextDays == CalcDays

SpecDays == InitDays /\ [][NextDays]_vars

\* ---- helpers of the properties ----
Balance(d, u) == d.users[u].leave_balance
Finishes(p, from) == proc[p].pc = from /\ proc'[p].pc = "idle"
Terminal == {"Approved", "Rejected"}

\* ---- C1 ----
\* C1: every user's committed leave_balance is >= 0 in every reachable state
C1_BalanceNonNegative == \A u \in Users : Balance(db, u) >= 0

\* ---- C2 ----
\* C2: once a leave request is Approved or Rejected, no step changes its
\* status, reviewer, reviewed_at or review_comment
C2_TerminalStatus ==
  [][\A i \in 1..Len(db.leaves) :
       db.leaves[i].status \in Terminal => db'.leaves[i] = db.leaves[i]]_vars

\* ---- C3 ----
\* C3: a review(approve) call that read the request as already Approved does
\* not debit again: it ends leaving every balance unchanged
C3_NoDoubleDebit ==
  [][\A p \in Procs :
       (/\ proc[p].op = "review" /\ proc[p].action = "approve"
        /\ proc[p].pc # "idle" /\ proc'[p].pc = "idle"
        /\ proc[p].l # <<>> /\ proc[p].l[1].status = "Approved")
       => db'.users = db.users]_vars

\* ---- C4 ----
\* C4: of two review calls that both read the same request as Pending, the one
\* that commits second (the request is no longer Pending) observes
\* IllegalTransition and changes neither the request nor a balance
C4_SingleWinner ==
  [][\A p \in Procs :
       (/\ Finishes(p, "rv_commit")
        /\ proc[p].l[1].status = "Pending"
        /\ db.leaves[proc[p].leave_id].status # "Pending")
       => (proc'[p].outcome = "IllegalTransition" /\ db' = db)]_vars

\* ---- C5 ----
\* C5: when the balance re-read by review(approve) is less than the request's
\* days, the call ends with InsufficientBalance in that step and nothing of the
\* database (no leave request, no balance, no open transaction) changes
C5_ApproveFailureAtomic ==
  [][\A p \in Procs :
       (/\ proc[p].pc = "rv_emp" /\ proc'[p] # proc[p]
        /\ Balance(db, proc[p].l[1].employee_id) < proc[p].l[1].days)
       => (/\ proc'[p].pc = "idle"
           /\ proc'[p].outcome = "InsufficientBalance"
           /\ db' = db /\ tx' = tx /\ lock' = lock)]_vars

\* a review ended with InsufficientBalance on a request that is still Pending,
\* after another approval had lowered the owner's balance below its days
C5_Witness ==
  \E p \in Procs, i \in 1..Len(db.leaves) :
    /\ proc[p].op = "review" /\ proc[p].outcome = "InsufficientBalance"
    /\ db.leaves[i].status = "Pending"
    /\ db.leaves[i].days > Balance(db, db.leaves[i].employee_id)
    /\ Balance(db, db.leaves[i].employee_id) < InitBalance

\* ---- C6 ----
\* C6: no persisted leave request has days <= 0
C6_NoZeroDayLeave == \A i \in 1..Len(db.leaves) : db.leaves[i].days > 0

\* ---- C7 ----
\* C7: when the days of a submission exceed the balance re-read by submit, the
\* call ends with InsufficientBalance in that step, no leave request is
\* persisted and no balance changes
C7_SubmitInsufficient ==
  [][\A p \in Procs :
       (/\ proc[p].pc = "ap_check" /\ proc'[p] # proc[p]
        /\ proc[p].days > Balance(db, proc[p].user))
       => (/\ proc'[p].pc = "idle"
           /\ proc'[p].outcome = "InsufficientBalance"
           /\ db' = db /\ tx' = tx /\ lock' = lock)]_vars

\* a submit ended with InsufficientBalance
C7_Witness ==
  \E p \in Procs :
    /\ proc[p].op = "apply" /\ proc[p].outcome = "InsufficientBalance"
    /\ \E u \in Employees : Balance(db, u) < InitBalance

\* ---- C8 ----
\* C8: the step that completes a submit reports success and appends exactly
\* one leave request: owned by the submitter, Pending, with the inclusive day
\* count of its dates and no reviewer stamp; balances and the existing
\* requests are unchanged
C8_SubmitFrame ==
  [][\A p \in Procs :
       Finishes(p, "ap_commit")
       => (/\ proc'[p].outcome = "Success"
           /\ Len(db'.leaves) = Len(db.leaves) + 1
           /\ SubSeq(db'.leaves, 1, Len(db.leaves)) = db.leaves
           /\ db'.users = db.users
           /\ LET n == db'.leaves[Len(db'.leaves)]
              IN /\ n.employee_id = proc[p].user
                 /\ n.status = "Pending"
                 /\ n.start_date = proc[p].start /\ n.end_date = proc[p].end
                 /\ n.days = calc_days(proc[p].start, proc[p].end)[1]
                 /\ n.reviewed_by = Null /\ n.reviewed_at = Null
                 /\ n.review_comment = NullText)]_vars

\* a submit succeeded and its request is persisted, still Pending
C8_Witness ==
  \E p \in Procs :
    /\ proc[p].op = "apply" /\ proc[p].outcome = "Success"
    /\ Len(db.leaves) >= 1
    /\ db.leaves[Len(db.leaves)].status = "Pending"
    /\ db.leaves[Len(db.leaves)].days >= 1

\* ---- C9 ----
\* C9: the committing step of review(approve) on a Pending request debits the
\* owner by exactly the request's days and stamps the request Approved in the
\* same step; in no step does a committed balance change without a request of
\* that user being stamped Approved for that many days, nor does a request
\* become Approved without the debit
C9_ApproveAtomic ==
  [][/\ \A p \in Procs :
          (/\ Finishes(p, "rv_commit") /\ proc[p].action = "approve"
           /\ db.leaves[proc[p].leave_id].status = "Pending")
          => LET old == db.leaves[proc[p].leave_id]
                 new == db'.leaves[proc[p].leave_id]
             IN /\ proc'[p].outcome = "Success"
                /\ Balance(db', old.employee_id) = Balance(db, old.employee_id) - old.days
                /\ new.status = "Approved"
                /\ new.reviewed_by = proc[p].user
                /\ new.reviewed_at # Null
                /\ new.review_comment = proc[p].comment
     /\ \A i \in 1..Len(db.leaves) :
          (db.leaves[i].status = "Pending" /\ db'.leaves[i].status = "Approved")
          => Balance(db', db.leaves[i].employee_id)
               = Balance(db, db.leaves[i].employee_id) - db.leaves[i].days
     /\ \A u \in Users :
          Balance(db', u) # Balance(db, u)
          => \E i \in 1..Len(db.leaves) :
               /\ db.leaves[i].employee_id = u
               /\ db'.leaves[i].status = "Approved"
               /\ db'.leaves[i] # db.leaves[i]
               /\ Balance(db', u) = Balance(db, u) - db.leaves[i].days]_vars

\* an approval of a request of one day or more is committed: the request is
\* Approved and stamped, the owner's balance is lower
C9_Witness ==
  \E p \in Procs, i \in 1..Len(db.leaves) :
    /\ proc[p].op = "review" /\ proc[p].outcome = "Success"
    /\ db.leaves[i].status = "Approved" /\ db.leaves[i].days >= 1
    /\ db.leaves[i].reviewed_by \in HRs
    /\ Balance(db, db.leaves[i].employee_id) = InitBalance - db.leaves[i].days

\* ---- C10 ----
\* C10: the committing step of review(reject) on a Pending request sets its
\* status to Rejected and stamps reviewer, reviewed_at and review_comment; all
\* its other fields, every balance and every other request are unchanged
C10_RejectFrame ==
  [][\A p \in Procs :
       (/\ Finishes(p, "rv_commit") /\ proc[p].action = "reject"
        /\ db.leaves[proc[p].leave_id].status = "Pending")
       => LET old == db.leaves[proc[p].leave_id]
              new == db'.leaves[proc[p].leave_id]
          IN /\ proc'[p].outcome = "Success"
             /\ new.reviewed_at # Null
             /\ new = [old EXCEPT !.status = "Rejected",
                                  !.reviewed_by = proc[p].user,
                                  !.reviewed_at = new.reviewed_at,
                                  !.review_comment = proc[p].comment]
             /\ db'.users = db.users
             /\ Len(db'.leaves) = Len(db.leaves)
             /\ \A j \in 1..Len(db.leaves) :
                  j # proc[p].leave_id => db'.leaves[j] = db.leaves[j]]_vars

\* a reject is committed on a request while another request exists
C10_Witness ==
  \E p \in Procs, i \in 1..Len(db.leaves) :
    /\ proc[p].op = "review" /\ proc[p].outcome = "Success"
    /\ db.leaves[i].status = "Rejected"
    /\ db.leaves[i].reviewed_by \in HRs
    /\ db.leaves[i].review_comment = <<"o", "k">>
    /\ Len(db.leaves) >= 2

\* ---- C11 ----
\* C11: a review by an hr reviewer of an existing request whose action is
\* neither approve nor reject ends with ValidationError in the step that reads
\* the request, and nothing of the database changes
C11_UnknownAction ==
  [][\A p \in Procs :
       (/\ proc[p].pc = "rv_read" /\ proc'[p] # proc[p]
        /\ proc[p].action \notin {"approve", "reject"}
        /\ proc[p].leave_id \in 1..Len(db.leaves))
       => (/\ proc'[p].pc = "idle"
           /\ proc'[p].outcome = "ValidationError"
           /\ db' = db /\ tx' = tx /\ lock' = lock)]_vars

\* a review ended with ValidationError while a request exists
C11_Witness ==
  \E p \in Procs :
    /\ proc[p].op = "review" /\ proc[p].outcome = "ValidationError"
    /\ Len(db.leaves) >= 1

\* ---- C12 ----
\* C12: a review call goes past its first step only for an acting user with
\* the hr role; every other review call ends there with AccessDenied and no
\* change to the database; every handler in review_leave past that step acts
\* for an hr user, and a request leaves Pending only with an hr reviewer stamp
C12_ReviewNeedsHr ==
  [][/\ \A p \in Procs :
          (proc[p].pc = "idle" /\ proc'[p] # proc[p] /\ proc'[p].op = "review")
          => \/ proc'[p].pc = "rv_read" /\ proc'[p].user \in HRs
             \/ /\ proc'[p].pc = "idle" /\ proc'[p].outcome = "AccessDenied"
                /\ db' = db /\ tx' = tx /\ lock' = lock
     /\ \A p \in Procs :
          (proc[p].op = "review" /\ proc[p].pc # "idle") => proc[p].user \in HRs
     /\ \A i \in 1..Len(db.leaves) :
          (db.leaves[i].status = "Pending" /\ db'.leaves[i].status # "Pending")
          => db'.leaves[i].reviewed_by \in HRs]_vars

\* a review call was denied while a Pending request exists
C12_Witness ==
  \E p \in Procs, i \in 1..Len(db.leaves) :
    /\ proc[p].op = "review" /\ proc[p].outcome = "AccessDenied"
    /\ db.leaves[i].status = "Pending"

\* ---- C13 ----
\* the first day of the month after that of d
NextMonth(d) == IF d[2] < 12 THEN <<d[1], d[2] + 1, 1>> ELSE <<d[1] + 1, 1, 1>>

Before(a, b) ==
  \/ a[1] < b[1]
  \/ a[1] = b[1] /\ a[2] < b[2]
  \/ a[1] = b[1] /\ a[2] = b[2] /\ a[3] < b[3]

\* number of calendar days from a to b, for a not after b, walking the
\* calendar month by month
RECURSIVE DaysBetween(_, _)
DaysBetween(a, b) ==
  IF a[1] = b[1] /\ a[2] = b[2] THEN b[3] - a[3]
  ELSE (DaysInMonth(a[1], a[2]) - a[3] + 1) + DaysBetween(NextMonth(a), b)

\* C13: for every pair of valid dates calc_days returns a value: the number
\* of calendar days from start to end plus 1 when start <= end (1 for the
\* same day), and 0 when end < start
C13_DayCount ==
  \A p \in Procs :
    (/\ proc[p].op = "calc" /\ proc[p].pc = "idle"
     /\ proc[p].start \in ValidDayDates /\ proc[p].end \in ValidDayDates)
    => /\ proc[p].outcome = "Success"
       /\ IF Before(proc[p].end, proc[p].start)
          THEN proc[p].days = 0
          ELSE proc[p].days = DaysBetween(proc[p].start, proc[p].end) + 1

\* calc_days has returned 0 for an inverted range across a leap day
C13_Witness ==
  /\ proc[1].op = "calc" /\ proc[1].pc = "idle" /\ proc[1].outcome = "Success"
  /\ proc[1].start = <<2024, 3, 1>> /\ proc[1].end = <<2024, 2, 28>>
  /\ proc[1].days = 0

\* ---- C14 ----
\* C14: no call ends in a raw unhandled fault
C14_NoRawFault == \A p \in Procs : proc[p].outcome # "Fault"

\* ---- C15 ----
\* sum of days over the requests of user u whose status is Approved
RECURSIVE ApprovedDays(_, _)
ApprovedDays(leaves, u) ==
  IF leaves = <<>> THEN 0
  ELSE (IF Head(leaves).employee_id = u /\ Head(leaves).status = "Approved"
        THEN Head(leaves).days ELSE 0) + ApprovedDays(Tail(leaves), u)

\* C15: every user's balance equals the initial balance minus the days of that
\* user's Approved requests
C15_Conservation ==
  \A u \in Users : Balance(db, u) = InitBalance - ApprovedDays(db.leaves, u)

\* ---- C16 ----
\* C16: a committed leave request has reviewed_by and reviewed_at set exactly
\* when its status is Approved or Rejected, a Pending one has neither, and a
\* stamped reviewer has the hr role
C16_StampIffReviewed ==
  \A i \in 1..Len(db.leaves) :
    LET r == db.leaves[i]
    IN /\ r.status \in Terminal \cup {"Pending"}
       /\ (r.status \in Terminal) <=> (r.reviewed_by # Null)
       /\ (r.status \in Terminal) <=> (r.reviewed_at # Null)
       /\ r.status = "Pending" => (r.reviewed_by = Null /\ r.reviewed_at = Null)
       /\ r.reviewed_by # Null => Role(r.reviewed_by) = "hr"

\* one request is Approved and stamped by an hr user while another is Pending
C16_Witness ==
  \E i, j \in 1..Len(db.leaves) :
    /\ db.leaves[i].status = "Approved" /\ db.leaves[i].reviewed_by \in HRs
    /\ db.leaves[i].reviewed_at # Null
    /\ db.leaves[j].status = "Pending" /\ db.leaves[j].reviewed_by = Null

\* ---- C17 ----
\* C17: no step raises a balance, and no step approves a Pending request whose
\* days exceed its owner's balance
C17_NeverApprovedBeyondBalance ==
  [][/\ \A u \in Users : Balance(db', u) <= Balance(db, u)
     /\ \A i \in 1..Len(db.leaves) :
          (/\ db.leaves[i].status = "Pending"
           /\ db.leaves[i].days > Balance(db, db.leaves[i].employee_id))
          => db'.leaves[i].status # "Approved"]_vars

\* ---- C18 ----
\* C18: a review by an hr reviewer of a request id that does not exist ends
\* with NotFound in the step that reads the request, whatever the action, and
\* nothing of the database changes
C18_ReviewNotFound ==
  [][\A p \in Procs :
       (/\ proc[p].pc = "rv_read" /\ proc'[p] # proc[p]
        /\ proc[p].leave_id \notin 1..Len(db.leaves))
       => (/\ proc'[p].pc = "idle"
           /\ proc'[p].outcome = "NotFound"
           /\ db' = db /\ tx' = tx /\ lock' = lock)]_vars

\* a review ended with NotFound: a request exists, the id asked for does not
C18_Witness ==
  \E p \in Procs :
    /\ proc[p].op = "review" /\ proc[p].outcome = "NotFound"
    /\ Len(db.leaves) = 1

\* ---- C19 ----
\* C19: the step of view_leave that reads an existing request changes nothing
\* of the database; it ends with Success only for an hr user or the request's
\* owner, and for every other logged-in user it ends with AccessDenied
C19_ViewOwnerOrHr ==
  [][\A p \in Procs :
       (proc[p].pc = "vw_read" /\ proc'[p] # proc[p])
       => /\ db' = db /\ tx' = tx /\ lock' = lock
          /\ proc'[p].pc = "idle"
          /\ proc[p].leave_id \in 1..Len(db.leaves)
             => LET owner == db.leaves[proc[p].leave_id].employee_id
                    allowed == proc[p].user \in HRs \/ proc[p].user = owner
                IN /\ proc'[p].outcome = "Success" => allowed
                   /\ (proc[p].user \in Users /\ allowed) => proc'[p].outcome = "Success"
                   /\ (proc[p].user \in Users /\ ~allowed)
                        => proc'[p].outcome = "AccessDenied"]_vars

\* one read-by-id was answered and another was denied
C19_Witness ==
  \E p, q \in Procs :
    /\ proc[p].op = "view" /\ proc[p].outcome = "Success"
    /\ proc[q].op = "view" /\ proc[q].outcome = "AccessDenied"
    /\ Len(db.leaves) >= 1
====
